---- MODULE Spec2Model ----
(***************************************************************************)
(* Model of pydukeenergy/api.py: the DukeEnergy session client.            *)
(*                                                                         *)
(* One client object is tracked.  Every public method is one action; the   *)
(* server's answers (and transport failures) are the inputs of the action, *)
(* drawn from the small response sets below.  Python values are modelled   *)
(* as records; an attribute that was never assigned is a record with       *)
(* set = FALSE.  Strings that the code splits or concatenates are          *)
(* sequences of one-character strings.                                     *)
(***************************************************************************)
EXTENDS Integers, Sequences, FiniteSets, TLC

(* ------------------------------ bounds --------------------------------- *)
\* longest account list the account-selector endpoint returns
MaxAccounts == 3
\* longest item list of the usageAnalysisMeter widget in one page
MaxItems == 2
\* cap on len(self.meters): get_meters is disabled when it could exceed it
MaxMeters == 2

(* --------------------------- Python values ----------------------------- *)
NoExc == "NoExc"
\* DukeEnergy.__init__(..., update_interval=60)
DefaultUpdateInterval == 60

\* the literal separator " - " of the MeterNumber
Separator == <<" ", "-", " ">>

IsPrefix(p, s) == Len(s) >= Len(p) /\ SubSeq(s, 1, Len(p)) = p

\* str.split(sep): the parts of s between non-overlapping occurrences of sep,
\* scanned left to right
RECURSIVE SplitFrom(_, _, _)
SplitFrom(s, sep, cur) ==
    IF s = <<>> THEN <<cur>>
    ELSE IF IsPrefix(sep, s)
         THEN <<cur>> \o SplitFrom(SubSeq(s, Len(sep) + 1, Len(s)), sep, <<>>)
         ELSE SplitFrom(Tail(s), sep, Append(cur, Head(s)))

Split(s, sep) == SplitFrom(s, sep, <<>>)

\* the composition as it would be with a bare hyphen
MeterNumberBareHyphen(m) == m.type \o <<"-">> \o m.id

\* meter.type + " - " + meter.id
MeterNumber(m) == m.type \o Separator \o m.id

(* --------------------------- server answers ---------------------------- *)
\* body kinds: not JSON at all; JSON that is falsy ({}); truthy JSON that is no
\* object (a list); a JSON object
BodyKinds == {"notjson", "falsy", "nondict", "dict"}

\* Answers to the sign-in POST.  exc = TRUE: the HTTP session raised (timeout,
\* connection error) instead of answering.
SignInResponses ==
    {[exc |-> TRUE, code |-> 0, kind |-> "notjson", hasStatus |-> FALSE, Status |-> ""]}
    \cup {[exc |-> FALSE, code |-> 500, kind |-> "dict", hasStatus |-> TRUE, Status |-> "Success"]}
    \cup {[exc |-> FALSE, code |-> 200, kind |-> k, hasStatus |-> FALSE, Status |-> ""] :
            k \in BodyKinds}
    \cup {[exc |-> FALSE, code |-> 200, kind |-> "dict", hasStatus |-> TRUE, Status |-> s] :
            s \in {"Success", "Failure"}}

AccountStatuses == {"ACTIVE", "Active", "INACTIVE"}
\* the account number of the i-th listed account
AccountNums == <<"123", "456", "789", "012", "345">>

SeqsUpTo(S, n) == UNION {[1..k -> S] : k \in 0..n}

AccountLists ==
    {[i \in 1..Len(st) |-> [Status |-> st[i], AccountNum |-> AccountNums[i]]] :
        st \in SeqsUpTo(AccountStatuses, MaxAccounts)}

\* Answers to the account-selector POST (GetResiAccounts)
SelectorResponses ==
    {[exc |-> TRUE, code |-> 0, kind |-> "notjson", hasStatus |-> FALSE, Status |-> "",
      hasAccounts |-> FALSE, Accounts |-> <<>>, hasCdp |-> FALSE]}
    \cup {[exc |-> FALSE, code |-> 500, kind |-> "dict", hasStatus |-> TRUE, Status |-> "Success",
      hasAccounts |-> FALSE, Accounts |-> <<>>, hasCdp |-> FALSE]}
    \cup {[exc |-> FALSE, code |-> 200, kind |-> "falsy", hasStatus |-> FALSE, Status |-> "",
      hasAccounts |-> FALSE, Accounts |-> <<>>, hasCdp |-> FALSE]}
    \cup {[exc |-> FALSE, code |-> 200, kind |-> "dict", hasStatus |-> TRUE, Status |-> "Success",
      hasAccounts |-> FALSE, Accounts |-> <<>>, hasCdp |-> TRUE]}
    \cup {[exc |-> FALSE, code |-> 200, kind |-> "dict", hasStatus |-> TRUE, Status |-> s,
      hasAccounts |-> TRUE, Accounts |-> a, hasCdp |-> c] :
            s \in {"Success", "Failure"}, a \in AccountLists, c \in BOOLEAN}

(* ------------------------- _post and its callers ----------------------- *)
Raise(e) == [exc |-> e, value |-> FALSE]
Return(v) == [exc |-> NoExc, value |-> v]

\* _post as it would be without the check of the status code
PostNoStatusCheck(resp) ==
    IF resp.exc THEN Raise("RequestException") ELSE Return(TRUE)

\* _post: the payloads of this module are dicts, so the unsupported-payload
\* branch is not taken; a transport failure propagates, a status other than
\* 200 raises DukeEnergyPostException
Post(resp) ==
    IF resp.exc THEN Raise("RequestException")
    ELSE IF resp.code # 200 THEN Raise("DukeEnergyPostException")
    ELSE Return(TRUE)

\* _post_and_check_json_status: value = TRUE when the parsed body is returned,
\* FALSE when None is returned
PostAndCheckJsonStatus(resp) ==
    LET p == Post(resp) IN
    IF p.exc # NoExc THEN p
    ELSE IF resp.kind = "notjson" THEN Raise("JSONDecodeError")
    ELSE IF resp.kind = "falsy" THEN Return(FALSE)
    ELSE IF resp.kind = "nondict" THEN Raise("AttributeError")
    ELSE IF resp.hasStatus /\ resp.Status = "Success" THEN Return(TRUE)
    ELSE Return(FALSE)

\* The provider issues the session cookie with a successful sign-in answer
SetsCookie(resp) ==
    ~resp.exc /\ resp.code = 200 /\ resp.kind = "dict"
    /\ resp.hasStatus /\ resp.Status = "Success"

Unset == [set |-> FALSE, hasAccounts |-> FALSE, Accounts |-> <<>>]
NoCdp == "<unset>"

\* _login: sign-in POST r1, then account-selector POST r2.  The result names the
\* exception raised (or NoExc), the returned boolean, the fields of the client
\* as the call leaves them and the requests sent, in order.
Login(ck, resi, c, r1, r2) ==
    LET a == PostAndCheckJsonStatus(r1)
        ck1 == ck \/ SetsCookie(r1)
        b == PostAndCheckJsonStatus(r2)
    IN
    IF a.exc # NoExc
    THEN [exc |-> a.exc, ret |-> FALSE, cookies |-> ck1, resi |-> resi, cdp |-> c,
          reqs |-> <<"SignIn">>]
    ELSE IF ~a.value
    THEN [exc |-> NoExc, ret |-> FALSE, cookies |-> ck1, resi |-> resi, cdp |-> c,
          reqs |-> <<"SignIn">>]
    ELSE IF b.exc # NoExc
    THEN [exc |-> b.exc, ret |-> FALSE, cookies |-> ck1, resi |-> resi, cdp |-> c,
          reqs |-> <<"SignIn", "GetResiAccounts">>]
    ELSE IF b.value
    THEN [exc |-> NoExc, ret |-> TRUE, cookies |-> ck1,
          resi |-> [set |-> TRUE, hasAccounts |-> r2.hasAccounts, Accounts |-> r2.Accounts],
          cdp |-> IF r2.hasCdp THEN "cdp" ELSE "None",
          reqs |-> <<"SignIn", "GetResiAccounts">>]
    ELSE [exc |-> NoExc, ret |-> TRUE, cookies |-> ck1, resi |-> resi, cdp |-> c,
          reqs |-> <<"SignIn", "GetResiAccounts">>]

\* the comparison as it would be without .upper()
UpperOmitted(s) == s

\* account['Status'].upper()
Upper(s) == IF s = "Active" THEN "ACTIVE" ELSE s

\* the loop step as it would be with a break after the first active account
AccountLoopStepBreak(st, a) ==
    IF Upper(a.Status) = "ACTIVE"
    THEN [account |-> IF st.found = 0 THEN a.AccountNum ELSE st.account,
          found |-> st.found + 1]
    ELSE st

\* one iteration of the loop of get_account_number: an active account is
\* assigned to self.account and counted; the loop has no break
AccountLoopStep(st, a) ==
    IF Upper(a.Status) = "ACTIVE"
    THEN [account |-> a.AccountNum, found |-> st.found + 1]
    ELSE st

RECURSIVE AccountLoop(_, _)
AccountLoop(accts, st) ==
    IF accts = <<>> THEN st
    ELSE AccountLoop(Tail(accts), AccountLoopStep(st, Head(accts)))

\* get_account_number on the stored GetResiAccountsResponse
GetAccountNumberResult(resi, acct) ==
    IF ~resi.set THEN [exc |-> "AttributeError", ret |-> FALSE, account |-> acct]
    ELSE IF ~resi.hasAccounts THEN [exc |-> "KeyError", ret |-> FALSE, account |-> acct]
    ELSE LET st == AccountLoop(resi.Accounts, [account |-> acct, found |-> 0])
         IN [exc |-> NoExc, ret |-> st.found > 0, account |-> st.account]

\* the account-selector answers drawn during the session life cycle: the
\* transport and status cases, with the account lists of at most one account
SessionSelectorResponses ==
    {r \in SelectorResponses :
        r.hasAccounts =>
            /\ r.Accounts = <<[Status |-> "ACTIVE", AccountNum |-> AccountNums[1]]>>
            /\ r.hasCdp}

(* ------------------------------ meters --------------------------------- *)
\* display texts of the widget's items: "E - 1", "G - 2" and "E1" (no separator)
ItemE1 == <<"E", " ", "-", " ", "1">>

ItemTexts ==
    { <<"E", " ", "-", " ", "1">>,
      <<"G", " ", "-", " ", "2">>,
      <<"E", "1">> }

Items == {[text |-> t, CalendarStartDate |-> "01/01/2020"] : t \in ItemTexts}

\* Answers to the GET of the usage-analysis page: a transport failure, a page
\* without the usageAnalysisMeter widget, a widget whose items attribute is no
\* JSON, or a widget with an item list
PageResponses ==
    {[exc |-> TRUE, widget |-> FALSE, json |-> FALSE, items |-> <<>>]}
    \cup {[exc |-> FALSE, widget |-> FALSE, json |-> FALSE, items |-> <<>>]}
    \cup {[exc |-> FALSE, widget |-> TRUE, json |-> FALSE, items |-> <<>>]}
    \cup {[exc |-> FALSE, widget |-> TRUE, json |-> TRUE, items |-> it] :
            it \in SeqsUpTo(Items, MaxItems)}

NoBilling == [set |-> FALSE, value |-> 0]
NoChart == [set |-> FALSE, hasData |-> FALSE, Data |-> <<>>]

\* Meter(self, meter_type, meter_id, meter_start_date, self.update_interval)
NewMeter(type, id, start, interval) ==
    [type |-> type, id |-> id, start_date |-> start, update_interval |-> interval,
     billing |-> NoBilling, chart |-> NoChart]

\* meter.set_billing_usage(payload)
SetBillingUsage(m, payload) == [m EXCEPT !.billing = [set |-> TRUE, value |-> payload]]

\* meter.set_chart_usage(body)
SetChartUsage(m, body) ==
    [m EXCEPT !.chart = [set |-> TRUE, hasData |-> body.hasData, Data |-> body.Data]]

\* the for loop of _get_meters: one Meter is appended per item; an item whose
\* text does not split into exactly two parts raises ValueError and leaves the
\* meters appended before it in the list
RECURSIVE AppendMeters(_, _, _)
AppendMeters(ms, items, interval) ==
    IF items = <<>> THEN [exc |-> NoExc, meters |-> ms]
    ELSE LET parts == Split(Head(items).text, Separator) IN
         IF Len(parts) # 2 THEN [exc |-> "ValueError", meters |-> ms]
         ELSE AppendMeters(
                Append(ms, NewMeter(parts[1], parts[2], Head(items).CalendarStartDate,
                                    interval)),
                Tail(items), interval)

\* _logout as it would be if it left the jar alone
LogoutKeepsCookies(ck) == ck

\* _logout: self.session.cookies.clear()
Logout(ck) == FALSE

\* _get_meters: always signs in again; the page is fetched and parsed, and the
\* cookie cleared, only when _login returned True
\* l is the outcome of the sign-in, app that of the loop over the items
GetMetersAfter(l, ms, page, app) ==
    LET base == [exc |-> l.exc, cookies |-> l.cookies, resi |-> l.resi, cdp |-> l.cdp,
                 meters |-> ms, reqs |-> l.reqs, login |-> l.ret]
        sent == Append(l.reqs, "MeterPage")
    IN
    IF l.exc # NoExc \/ ~l.ret THEN base
    ELSE IF page.exc THEN [base EXCEPT !.exc = "RequestException", !.reqs = sent]
    ELSE IF ~page.widget THEN [base EXCEPT !.exc = "TypeError", !.reqs = sent]
    ELSE IF ~page.json THEN [base EXCEPT !.exc = "JSONDecodeError", !.reqs = sent]
    ELSE IF app.exc # NoExc
         THEN [base EXCEPT !.exc = app.exc, !.reqs = sent, !.meters = app.meters]
         ELSE [base EXCEPT !.reqs = sent, !.meters = app.meters,
                           !.cookies = Logout(l.cookies)]

\* _get_meters with its sign-in
GetMetersResult(ck, resi, c, ms, interval, r1, r2, page) ==
    GetMetersAfter(Login(ck, resi, c, r1, r2), ms, page,
                   AppendMeters(ms, page.items, interval))

(* ------------------------------ dates ---------------------------------- *)
\* A date is [year, month, day].  date.toordinal(): days since 0001-01-01,
\* which is day 1.
IsLeap(y) == y % 4 = 0 /\ (y % 100 # 0 \/ y % 400 = 0)

DaysInMonth(y, m) ==
    IF m = 2 THEN (IF IsLeap(y) THEN 29 ELSE 28)
    ELSE IF m \in {4, 6, 9, 11} THEN 30 ELSE 31

DaysBeforeYear(y) == (y - 1) * 365 + (y - 1) \div 4 - (y - 1) \div 100 + (y - 1) \div 400

RECURSIVE DaysBeforeMonth(_, _)
DaysBeforeMonth(y, m) ==
    IF m = 1 THEN 0 ELSE DaysBeforeMonth(y, m - 1) + DaysInMonth(y, m - 1)

ToOrdinal(d) == DaysBeforeYear(d.year) + DaysBeforeMonth(d.year, d.month) + d.day

\* date.fromordinal(n): the year from the 400-, 100-, 4- and 1-year cycles, the
\* month from an estimate that is corrected when it overshoots
FromOrdinal(n) ==
    LET n0 == n - 1
        n400 == n0 \div 146097
        r400 == n0 % 146097
        n100 == r400 \div 36524
        r100 == r400 % 36524
        n4 == r100 \div 1461
        r4 == r100 % 1461
        n1 == r4 \div 365
        r1 == r4 % 365
        year == n400 * 400 + 1 + n100 * 100 + n4 * 4 + n1
        guess == (r1 + 50) \div 32
        month == IF DaysBeforeMonth(year, guess) > r1 THEN guess - 1 ELSE guess
    IN
    IF n1 = 4 \/ n100 = 4 THEN [year |-> year - 1, month |-> 12, day |-> 31]
    ELSE [year |-> year, month |-> month, day |-> r1 - DaysBeforeMonth(year, month) + 1]

\* meter.date - timedelta(days=1)
SubtractDay(d) == FromOrdinal(ToOrdinal(d) - 1)

\* datetime.today().weekday(): Monday is 0 and Sunday is 6
WeekdayNames ==
    <<"Monday", "Tuesday", "Wednesday", "Thursday", "Friday", "Saturday", "Sunday">>
Weekday(today) == (CHOOSE i \in 1..Len(WeekdayNames) : WeekdayNames[i] = today) - 1

Digits == <<"0", "1", "2", "3", "4", "5", "6", "7", "8", "9">>
Digit(k) == Digits[k + 1]
\* %m and %d: two digits, zero padded
TwoDigits(n) == <<Digit(n \div 10), Digit(n % 10)>>
\* %Y for the four-digit years
FourDigits(y) ==
    <<Digit(y \div 1000), Digit((y \div 100) % 10), Digit((y \div 10) % 10), Digit(y % 10)>>

\* the_date.strftime("%m / %d / %Y")
Strftime(d) ==
    TwoDigits(d.month) \o <<" ", "/", " ">> \o TwoDigits(d.day) \o <<" ", "/", " ">>
        \o FourDigits(d.year)

\* the date as it would be without the Sunday branch
TheDateNoShift(date, today) == date

\* the_date of get_usage_chart_data
TheDate(date, today) == IF Weekday(today) = 6 THEN SubtractDay(date) ELSE date

(* --------------------------- fetch calls ------------------------------- *)
\* the Data arrays of the billing answers; an element stands for one billing
\* period and is named by its amount
DataArrays == {<<>>, <<10>>, <<10, 20>>, <<20, 10>>}

\* Answers to the billing POST
DataResponses ==
    {[exc |-> TRUE, code |-> 0, kind |-> "notjson", hasStatus |-> FALSE, Status |-> "",
      hasData |-> FALSE, Data |-> <<>>]}
    \cup {[exc |-> FALSE, code |-> 500, kind |-> "dict", hasStatus |-> TRUE, Status |-> "OK",
      hasData |-> TRUE, Data |-> <<10, 20>>]}
    \cup {[exc |-> FALSE, code |-> 200, kind |-> k, hasStatus |-> FALSE, Status |-> "",
      hasData |-> FALSE, Data |-> <<>>] : k \in BodyKinds}
    \cup {[exc |-> FALSE, code |-> 200, kind |-> "dict", hasStatus |-> TRUE, Status |-> st,
      hasData |-> FALSE, Data |-> <<>>] : st \in {"ERROR", "Unknown", "OK"}}
    \cup {[exc |-> FALSE, code |-> 200, kind |-> "dict", hasStatus |-> TRUE, Status |-> "OK",
      hasData |-> TRUE, Data |-> d] : d \in DataArrays}

\* Answers to the usage-chart POST
ChartResponses == {r \in DataResponses : r.hasData => r.Data = <<10, 20>>}

\* outcome of a try block: the exception raised inside it (or NoExc), the value
\* returned, whether _logout ran and whether the meter was handed a payload
TryResult(e, ret, out, store) == [exc |-> e, ret |-> ret, logout |-> out, store |-> store]

\* response.json()["Status"]: the exception it raises, or NoExc
StatusLookup(resp) ==
    IF resp.kind = "notjson" THEN "JSONDecodeError"
    ELSE IF resp.kind = "falsy" THEN "KeyError"
    ELSE IF resp.kind = "nondict" THEN "TypeError"
    ELSE IF ~resp.hasStatus THEN "KeyError"
    ELSE NoExc

\* the try block of get_billing_info.  With a status other than 200 the
\* logging call concatenates a str and an int, which raises TypeError.
BillingTry(resp) ==
    IF resp.code # 200 THEN TryResult("TypeError", "", FALSE, FALSE)
    ELSE IF StatusLookup(resp) # NoExc THEN TryResult(StatusLookup(resp), "", FALSE, FALSE)
    ELSE IF resp.Status = "ERROR" THEN TryResult(NoExc, "False", TRUE, FALSE)
    ELSE IF resp.Status = "OK"
         THEN IF ~resp.hasData THEN TryResult("KeyError", "", FALSE, FALSE)
              ELSE IF resp.Data = <<>> THEN TryResult("IndexError", "", FALSE, FALSE)
              ELSE TryResult(NoExc, "True", FALSE, TRUE)
    ELSE TryResult(NoExc, "False", TRUE, FALSE)

\* the try block as it would be if the "ERROR" branch handed the body over
ChartTryStoresOnError(resp) ==
    IF resp.code # 200 THEN TryResult("TypeError", "", FALSE, FALSE)
    ELSE IF StatusLookup(resp) # NoExc THEN TryResult(StatusLookup(resp), "", FALSE, FALSE)
    ELSE IF resp.Status = "ERROR" THEN TryResult(NoExc, "False", TRUE, TRUE)
    ELSE IF resp.Status = "OK" THEN TryResult(NoExc, "True", FALSE, TRUE)
    ELSE TryResult(NoExc, "False", TRUE, FALSE)

\* the try block of get_usage_chart_data
ChartTry(resp) ==
    IF resp.code # 200 THEN TryResult("TypeError", "", FALSE, FALSE)
    ELSE IF StatusLookup(resp) # NoExc THEN TryResult(StatusLookup(resp), "", FALSE, FALSE)
    ELSE IF resp.Status = "ERROR" THEN TryResult(NoExc, "False", TRUE, FALSE)
    ELSE IF resp.Status = "OK" THEN TryResult(NoExc, "True", FALSE, TRUE)
    ELSE TryResult(NoExc, "False", TRUE, FALSE)

\* the handler as it would be without its _logout() call
ExceptHandlerNoLogout(t) ==
    IF t.exc # NoExc THEN TryResult(NoExc, "False", FALSE, FALSE) ELSE t

\* except Exception: log, _logout(), return False
ExceptHandler(t) ==
    IF t.exc # NoExc THEN TryResult(NoExc, "False", TRUE, FALSE) ELSE t

\* the data POST of a fetch call and what follows it; session.post is outside
\* the try block, so what it raises leaves the call
DataPost(resp, try) ==
    IF resp.exc THEN TryResult("RequestException", "", FALSE, FALSE)
    ELSE ExceptHandler(try)

\* the fetch call as it would be if the body did not depend on the condition
FetchAfterUnguarded(ck, l, d, req) ==
    LET base == [exc |-> l.exc, ret |-> "", cookies |-> l.cookies, resi |-> l.resi,
                 cdp |-> l.cdp, reqs |-> l.reqs, store |-> FALSE, held |-> FALSE,
                 login |-> IF ck THEN "skipped"
                           ELSE IF l.exc # NoExc THEN "raised"
                           ELSE IF l.ret THEN "True" ELSE "False"]
    IN
    IF l.exc # NoExc THEN base
    ELSE [base EXCEPT !.exc = d.exc, !.ret = d.ret, !.store = d.store,
                      !.reqs = Append(l.reqs, req), !.held = l.cookies,
                      !.cookies = IF d.logout THEN Logout(l.cookies) ELSE l.cookies]

\* a fetch call once the condition  self.session.cookies or self._login()  is
\* evaluated with the outcome l; d is what the data POST and the try block do.
\* Without an else branch, a false condition ends the method, which then
\* returns None.  held is the cookie state in which the data POST goes out.
FetchAfter(ck, l, d, req) ==
    LET base == [exc |-> l.exc, ret |-> "", cookies |-> l.cookies, resi |-> l.resi,
                 cdp |-> l.cdp, reqs |-> l.reqs, store |-> FALSE, held |-> FALSE,
                 login |-> IF ck THEN "skipped"
                           ELSE IF l.exc # NoExc THEN "raised"
                           ELSE IF l.ret THEN "True" ELSE "False"]
    IN
    IF l.exc # NoExc THEN base
    ELSE IF ~l.ret THEN [base EXCEPT !.ret = "None"]
    ELSE [base EXCEPT !.exc = d.exc, !.ret = d.ret, !.store = d.store,
                      !.reqs = Append(l.reqs, req), !.held = l.cookies,
                      !.cookies = IF d.logout THEN Logout(l.cookies) ELSE l.cookies]

\* the condition: _login is called only when the jar is empty
FetchResult(ck, resi, c, r1, r2, resp, try, req) ==
    FetchAfter(ck,
               IF ck THEN [exc |-> NoExc, ret |-> TRUE, cookies |-> ck, resi |-> resi,
                           cdp |-> c, reqs |-> <<>>]
               ELSE Login(ck, resi, c, r1, r2),
               DataPost(resp, try), req)

GetBillingInfoResult(ck, resi, c, r1, r2, resp) ==
    FetchResult(ck, resi, c, r1, r2, resp, BillingTry(resp), "Billing")

GetUsageChartDataResult(ck, resi, c, r1, r2, resp) ==
    FetchResult(ck, resi, c, r1, r2, resp, ChartTry(resp), "UsageChart")

(* ---------------------------- raw usage export ------------------------ *)
\* for retrynum in range(3)
Retries == 3

\* what one export POST does: it raises TooManyRedirects, it is answered with
\* a text containing "<?xml ", it is answered with another text, or it raises
\* another exception (a connection error)
XmlOutcomes == {"redirect", "xml", "other", "error"}

\* what the server does to the first, second and third export POST.  An
\* outcome is drawn only for a POST the loop can send: after an outcome that
\* ends the loop the remaining ones are written "xml".
XmlPlans ==
    {plan \in [1..Retries -> XmlOutcomes] :
        \A i \in 1..(Retries - 1) : plan[i] \in {"xml", "error"} => plan[i + 1] = "xml"}

\* the loop as it would be without the break after an XML answer
RECURSIVE XmlLoopNoBreak(_, _, _)
XmlLoopNoBreak(plan, i, last) ==
    IF i > Retries THEN [exc |-> NoExc, sent |-> i - 1, last |-> last]
    ELSE IF plan[i] = "error" THEN [exc |-> "ConnectionError", sent |-> i, last |-> last]
    ELSE IF plan[i] = "redirect" THEN XmlLoopNoBreak(plan, i + 1, last)
    ELSE XmlLoopNoBreak(plan, i + 1, i)

\* the retry loop of get_usage_xml from attempt i on; last is the attempt that
\* the variable response holds the answer of (0: response is not bound yet)
RECURSIVE XmlLoop(_, _, _)
XmlLoop(plan, i, last) ==
    IF i > Retries THEN [exc |-> NoExc, sent |-> i - 1, last |-> last]
    ELSE IF plan[i] = "error" THEN [exc |-> "ConnectionError", sent |-> i, last |-> last]
    ELSE IF plan[i] = "redirect" THEN XmlLoop(plan, i + 1, last)
    ELSE IF plan[i] = "xml" THEN [exc |-> NoExc, sent |-> i, last |-> i]
    ELSE XmlLoop(plan, i + 1, i)

\* get_usage_xml as it would be if it called self._login() and the sign-in
\* succeeded
GetUsageXmlResultWithLogin(ck, plan) ==
    LET l == XmlLoop(plan, 1, 0) IN
    [exc |-> IF l.exc = NoExc /\ l.last = 0 THEN "UnboundLocalError" ELSE l.exc,
     text |-> IF l.exc = NoExc THEN l.last ELSE 0,
     cookies |-> TRUE,
     attempts |-> SubSeq(plan, 1, l.sent),
     reqs |-> <<"SignIn", "GetResiAccounts">> \o [i \in 1..l.sent |-> "Export"]]

\* get_usage_xml.  The condition  if self._login:  tests the bound method, which
\* is always true and signs nobody in.  return response.text  raises
\* UnboundLocalError when no attempt was answered.  text is the attempt whose
\* answer text is returned.
GetUsageXmlResult(ck, plan) ==
    LET l == XmlLoop(plan, 1, 0) IN
    [exc |-> IF l.exc = NoExc /\ l.last = 0 THEN "UnboundLocalError" ELSE l.exc,
     text |-> IF l.exc = NoExc THEN l.last ELSE 0,
     cookies |-> ck,
     attempts |-> SubSeq(plan, 1, l.sent),
     reqs |-> [i \in 1..l.sent |-> "Export"]]

(* ------------------------------- state --------------------------------- *)
VARIABLES
    alive,                    \* a constructed client object exists
    cookies,                  \* self.session.cookies is not empty
    GetResiAccountsResponse,  \* self.GetResiAccountsResponse
    cdp,                      \* self.cdp
    account,                  \* self.account
    meters,                   \* self.meters, with each Meter's recorded data
    call,                     \* the last call: its inputs, requests and outcome
    callers                   \* the calls in progress when two callers share the client

vars == <<alive, cookies, GetResiAccountsResponse, cdp, account, meters, call, callers>>

\* the callers that may run calls on the client at the same time
Callers == {1, 2}

\* a caller with no call in progress.  pc is the caller's position in its
\* call; checked: the cookie check of the call passed, so it did not sign in;
\* cleared: another caller ran _logout after this call passed its condition,
\* and nobody signed in since; held: the jar held a cookie when the data POST
\* of the call went out
Idle == [pc |-> "idle", op |-> "none", checked |-> FALSE, cleared |-> FALSE, held |-> FALSE]

NoAccount == "<unset>"

NoSignIn == [exc |-> FALSE, code |-> 0, kind |-> "none", hasStatus |-> FALSE, Status |-> ""]
NoSelector ==
    [exc |-> FALSE, code |-> 0, kind |-> "none", hasStatus |-> FALSE, Status |-> "",
     hasAccounts |-> FALSE, Accounts |-> <<>>, hasCdp |-> FALSE]
NoData ==
    [exc |-> FALSE, code |-> 0, kind |-> "none", hasStatus |-> FALSE, Status |-> "",
     hasData |-> FALSE, Data |-> <<>>]
NoDate == [year |-> 0, month |-> 0, day |-> 0]
NoPage == [exc |-> FALSE, widget |-> FALSE, json |-> FALSE, items |-> <<>>]

NoCall ==
    [op |-> "none", exc |-> NoExc, ret |-> "", reqs |-> <<>>, login |-> "skipped",
     meter |-> 0, store |-> FALSE, held |-> FALSE, number |-> <<>>,
     today |-> "", date |-> NoDate, Date |-> <<>>,
     attempts |-> <<>>, text |-> 0,
     r1 |-> NoSignIn, r2 |-> NoSelector, resp |-> NoData, page |-> NoPage]

DataPosts == {"Billing", "UsageChart"}
SentDataPost(c) == c.reqs # <<>> /\ c.reqs[Len(c.reqs)] \in DataPosts

IsFetch(c) == c.op \in {"get_billing_info", "get_usage_chart_data"}
\* a call failed when it raised or returned anything but True
Failed(c) == c.exc # NoExc \/ c.ret # "True"

\* The answers a call consumes: an answer is drawn only for a request the call
\* sends (the selector is asked only after a successful sign-in, and so on);
\* the others are blank.
HasOkStatus(r) == PostAndCheckJsonStatus(r) = Return(TRUE)

SignInOk(r1) ==
    PostAndCheckJsonStatus(r1).exc = NoExc /\ PostAndCheckJsonStatus(r1).value

LoginAnswers(S1, S2) ==
    {p \in S1 \X (S2 \cup {NoSelector}) : (p[2] = NoSelector) = ~SignInOk(p[1])}

\* the answers drawn during the session life cycle
SessionAnswers == LoginAnswers(SignInResponses, SessionSelectorResponses)

LoginReturnsTrue(p) ==
    /\ SignInOk(p[1])
    /\ PostAndCheckJsonStatus(p[2]).exc = NoExc

Init ==
    /\ alive = FALSE
    /\ cookies = FALSE
    /\ GetResiAccountsResponse = Unset
    /\ cdp = NoCdp
    /\ account = NoAccount
    /\ meters = <<>>
    /\ call = NoCall
    /\ callers = [c \in Callers |-> Idle]

\* DukeEnergy(email, password): a new session without cookies, _login, then
\* get_account_number; either failing raises and leaves no object
ConstructResult(r1, r2) ==
    LET l == Login(FALSE, Unset, NoCdp, r1, r2)
        g == GetAccountNumberResult(l.resi, NoAccount)
        base == [exc |-> l.exc, ok |-> FALSE, cookies |-> l.cookies, resi |-> l.resi,
                 cdp |-> l.cdp, account |-> NoAccount, reqs |-> l.reqs]
    IN
    IF l.exc # NoExc THEN base
    ELSE IF ~l.ret THEN [base EXCEPT !.exc = "DukeEnergyException"]
    ELSE IF g.exc # NoExc THEN [base EXCEPT !.exc = g.exc]
    ELSE IF ~g.ret THEN [base EXCEPT !.exc = "DukeEnergyException"]
    ELSE [base EXCEPT !.ok = TRUE, !.account = g.account]

ConstructFrom(S1, S2) ==
    \E p \in LoginAnswers(S1, S2) :
        LET r1 == p[1]
            r2 == p[2]
            c == ConstructResult(r1, r2)
        IN
        /\ alive' = c.ok
        /\ cookies' = (c.ok /\ c.cookies)
        /\ GetResiAccountsResponse' = IF c.ok THEN c.resi ELSE Unset
        /\ cdp' = IF c.ok THEN c.cdp ELSE NoCdp
        /\ account' = IF c.ok THEN c.account ELSE NoAccount
        /\ meters' = <<>>
        /\ call' = [NoCall EXCEPT !.op = "__init__", !.exc = c.exc, !.reqs = c.reqs,
                                  !.ret = IF c.ok THEN "client" ELSE "",
                                  !.r1 = r1, !.r2 = r2]
        /\ UNCHANGED callers

\* construction during the session life cycle
Construct == ~alive /\ ConstructFrom(SignInResponses, SessionSelectorResponses)

\* what a get_meters call with the result g leaves behind
Discovered(page, g) ==
    /\ cookies' = g.cookies
    /\ GetResiAccountsResponse' = g.resi
    /\ cdp' = g.cdp
    /\ meters' = g.meters
    /\ call' = [NoCall EXCEPT !.op = "get_meters", !.exc = g.exc, !.reqs = g.reqs,
                              !.ret = IF g.exc = NoExc THEN "meters" ELSE "",
                              !.login = IF g.exc # NoExc /\ Len(g.reqs) < 3 THEN "raised"
                                        ELSE IF g.login THEN "True" ELSE "False",
                              !.page = page]
    /\ UNCHANGED <<alive, account, callers>>

\* get_meters(): _get_meters(), then return self.meters.  Answers and Pages
\* are the answers the provider may give to the two POSTs of the sign-in and
\* to the GET of the page.
GetMetersFrom(Answers, Pages) ==
    /\ alive
    /\ \E p \in Answers :
       \E page \in IF LoginReturnsTrue(p) THEN Pages ELSE {NoPage} :
        /\ Len(meters) + Len(page.items) <= MaxMeters
        /\ Discovered(page, GetMetersResult(cookies, GetResiAccountsResponse, cdp, meters,
                                            DefaultUpdateInterval, p[1], p[2], page))

GetMeters == GetMetersFrom(SessionAnswers, PageResponses)

\* a fetch call signs in only when the session holds no cookie
FetchAnswersFrom(Answers) ==
    IF cookies THEN {<<NoSignIn, NoSelector>>} ELSE Answers

FetchLoginAnswers == FetchAnswersFrom(SessionAnswers)

\* the caller polls the first meter of the list it was given
PolledMeters == IF meters = <<>> THEN {} ELSE {1}

\* a billing call on the m-th meter of self.meters
Fetch(op, m, r1, r2, resp, f) ==
    /\ cookies' = f.cookies
    /\ GetResiAccountsResponse' = f.resi
    /\ cdp' = f.cdp
    /\ call' = [NoCall EXCEPT !.op = op, !.exc = f.exc, !.ret = f.ret, !.reqs = f.reqs,
                              !.login = f.login, !.meter = m, !.resp = resp,
                              !.store = f.store, !.held = f.held,
                              !.number = IF SentDataPost(f) THEN MeterNumber(meters[m])
                                         ELSE <<>>]
    /\ meters' = IF f.store
                 THEN [meters EXCEPT ![m] = SetBillingUsage(@, resp.Data[Len(resp.Data)])]
                 ELSE meters
    /\ UNCHANGED <<alive, account, callers>>

\* get_billing_info(meter), with the answers drawn from Answers and Resps
GetBillingInfoFrom(Answers, Resps) ==
    /\ alive
    /\ \E m \in PolledMeters, p \in FetchAnswersFrom(Answers) :
       \E resp \in IF cookies \/ LoginReturnsTrue(p) THEN Resps ELSE {NoData} :
        Fetch("get_billing_info", m, p[1], p[2], resp,
              GetBillingInfoResult(cookies, GetResiAccountsResponse, cdp, p[1], p[2], resp))

GetBillingInfo ==
    GetBillingInfoFrom(SessionAnswers, DataResponses)

\* a usage-chart call on the m-th meter: the call record also holds the
\* weekday, meter.date and the Date field of the POST
FetchChart(m, r1, r2, resp, f, date, today) ==
    /\ cookies' = f.cookies
    /\ GetResiAccountsResponse' = f.resi
    /\ cdp' = f.cdp
    /\ call' = [NoCall EXCEPT !.op = "get_usage_chart_data", !.exc = f.exc,
                              !.ret = f.ret, !.reqs = f.reqs,
                              !.login = f.login, !.meter = m, !.resp = resp,
                              !.store = f.store, !.held = f.held,
                              !.number = IF SentDataPost(f) THEN MeterNumber(meters[m])
                                         ELSE <<>>,
                              !.today = today, !.date = date,
                              !.Date = IF SentDataPost(f) THEN Strftime(TheDate(date, today))
                                       ELSE <<>>]
    /\ meters' = IF f.store THEN [meters EXCEPT ![m] = SetChartUsage(@, resp)]
                 ELSE meters
    /\ UNCHANGED <<alive, account, callers>>

\* get_usage_chart_data(meter), called on the weekday today while meter.date
\* is one of Dates
GetUsageChartDataFrom(Answers, Resps, Dates, Days) ==
    /\ alive
    /\ \E m \in PolledMeters, p \in FetchAnswersFrom(Answers), date \in Dates, today \in Days :
       \E resp \in IF cookies \/ LoginReturnsTrue(p) THEN Resps ELSE {NoData} :
        FetchChart(m, p[1], p[2], resp,
                   GetUsageChartDataResult(cookies, GetResiAccountsResponse, cdp,
                                           p[1], p[2], resp),
                   date, today)

\* meter.date and the weekday of the request during the session life cycle
SessionDates == {[year |-> 2024, month |-> 3, day |-> 1]}
SessionDays == {"Sunday", "Monday"}

GetUsageChartData ==
    GetUsageChartDataFrom(SessionAnswers, ChartResponses, SessionDates, SessionDays)

\* what a get_usage_xml call with the result x leaves behind
Exported(x) ==
    /\ cookies' = x.cookies
    /\ call' = [NoCall EXCEPT !.op = "get_usage_xml", !.exc = x.exc, !.reqs = x.reqs,
                              !.ret = IF x.exc = NoExc THEN "text" ELSE "",
                              !.attempts = x.attempts, !.text = x.text]
    /\ UNCHANGED <<alive, GetResiAccountsResponse, cdp, account, meters, callers>>

\* get_usage_xml()
GetUsageXml ==
    /\ alive
    /\ \E plan \in XmlPlans : Exported(GetUsageXmlResult(cookies, plan))

Next == Construct \/ GetMeters \/ GetBillingInfo \/ GetUsageChartData \/ GetUsageXml

Spec == Init /\ [][Next]_vars

\* construction with every account list of the bound
ConstructAny == ConstructFrom(SignInResponses, SelectorResponses)

\* get_account_number() called again on the constructed client
GetAccountNumber ==
    /\ alive
    /\ LET g == GetAccountNumberResult(GetResiAccountsResponse, account) IN
        /\ account' = g.account
        /\ call' = [call EXCEPT !.op = "get_account_number", !.exc = g.exc,
                                !.ret = IF g.ret THEN "True" ELSE "False",
                                !.reqs = <<>>]
    /\ UNCHANGED <<alive, cookies, GetResiAccountsResponse, cdp, meters, callers>>

NextConstruct == ConstructAny \/ GetAccountNumber

\* construction alone, over all the account lists
SpecConstruct == Init /\ [][NextConstruct]_vars

\* the answers the status-checked helper is applied to: the account-selector
\* answers, and HTTP 200 answers whose body is no JSON, a JSON list, or an
\* object without Status
HelperResponses ==
    SelectorResponses
    \cup {[exc |-> FALSE, code |-> 200, kind |-> k, hasStatus |-> FALSE, Status |-> "",
            hasAccounts |-> FALSE, Accounts |-> <<>>, hasCdp |-> FALSE] :
                k \in {"notjson", "nondict", "dict"}}

\* _post_and_check_json_status(url, payload) on its own, as _login calls it
\* from __init__ while the object is under construction
PostAndCheck ==
    /\ ~alive
    /\ \E r \in HelperResponses :
        LET h == PostAndCheckJsonStatus(r) IN
        call' = [NoCall EXCEPT !.op = "_post_and_check_json_status", !.exc = h.exc,
                               !.ret = IF h.exc # NoExc THEN ""
                                       ELSE IF h.value THEN "body" ELSE "None",
                               !.reqs = <<"GetResiAccounts">>, !.r2 = r]
    /\ UNCHANGED <<alive, cookies, GetResiAccountsResponse, cdp, account, meters, callers>>

NextHelper == PostAndCheck

\* the status-checked POST helper alone, over its answers
SpecHelper == Init /\ [][NextHelper]_vars

\* answers of a provider that accepts the sign-in and serves the data
OkSignIns == {r \in SignInResponses : SignInOk(r)}
OkSelectors == {r \in SessionSelectorResponses : r.hasAccounts /\ HasOkStatus(r)}
OkAnswers == LoginAnswers(OkSignIns, OkSelectors)
OkData == {r \in DataResponses : r.code = 200 /\ r.hasData /\ r.Data = <<10, 20>>}

\* construction against that provider
ConstructOk == ~alive /\ ConstructFrom(OkSignIns, OkSelectors)

\* the display texts: every text over the alphabet up to the length bound
MaxText == 6
TextAlphabet == {"E", " ", "-"}
DisplayTexts == SeqsUpTo(TextAlphabet, MaxText)
TextPages ==
    {[exc |-> FALSE, widget |-> TRUE, json |-> TRUE,
      items |-> <<[text |-> t, CalendarStartDate |-> "01/01/2020"]>>] : t \in DisplayTexts}

\* the first get_meters call of a client, on a page listing one item
DiscoverText ==
    /\ call.op = "__init__"
    /\ GetMetersFrom(OkAnswers, TextPages)

\* the discovered meter is polled
PollBilling == GetBillingInfoFrom(OkAnswers, OkData)
PollChart == GetUsageChartDataFrom(OkAnswers, OkData, SessionDates, SessionDays)

NextSplit == ConstructOk \/ DiscoverText \/ PollBilling \/ PollChart

\* discovery and polling over all the display texts
SpecSplit == Init /\ [][NextSplit]_vars

\* meter.date: every day of a year that is no leap year by the century rule, a
\* leap year by the 400-year rule, a common year and a leap year
Years == {1900, 2000, 2023, 2024}
MeterDates ==
    {dt \in [year : Years, month : 1..12, day : 1..31] :
        dt.day <= DaysInMonth(dt.year, dt.month)}
Days == {WeekdayNames[i] : i \in 1..Len(WeekdayNames)}

\* the page lists the meter "E - 1"
DiscoverOne ==
    /\ call.op = "__init__"
    /\ GetMetersFrom(OkAnswers,
                     {pg \in PageResponses : Len(pg.items) = 1 /\ pg.items[1].text = ItemE1})

\* the first usage-chart call after discovery, on any date and weekday
ChartOnDate ==
    /\ call.op = "get_meters"
    /\ GetUsageChartDataFrom(OkAnswers, OkData, MeterDates, Days)

NextDate == ConstructOk \/ DiscoverOne \/ ChartOnDate

\* one usage-chart call over all the dates and weekdays
SpecDate == Init /\ [][NextDate]_vars

(* ------------------------ two callers, one client ---------------------- *)
\* The calls of two callers interleave at their reads and writes of the cookie
\* jar and at their requests.  A step of caller d that runs _logout (out) or
\* puts a cookie in the jar (in) is seen by the callers that have passed the
\* condition of a fetch call and have not sent its POST yet.
Seen(d, out, in) ==
    [c \in Callers |->
        IF c # d /\ callers[c].pc = "post"
        THEN [callers[c] EXCEPT !.cleared = IF out THEN TRUE ELSE IF in THEN FALSE ELSE @]
        ELSE callers[c]]

FetchOps == {"get_billing_info", "get_usage_chart_data"}

\* the data answers of the race: the payload, or Status "ERROR"
RaceData ==
    {r \in DataResponses :
        /\ r.code = 200 /\ r.kind = "dict" /\ r.hasStatus
        /\ r.Status = "ERROR" \/ (r.hasData /\ r.Data = <<10, 20>>)}

\* a caller enters a fetch call and evaluates self.session.cookies
RaceStartFetch(c) ==
    /\ alive /\ meters # <<>> /\ callers[c].pc = "idle"
    /\ \E op \in FetchOps :
        callers' = [callers EXCEPT ![c] =
                      [Idle EXCEPT !.op = op, !.checked = cookies,
                                   !.pc = IF cookies THEN "post" ELSE "login"]]
    /\ UNCHANGED <<alive, cookies, GetResiAccountsResponse, cdp, account, meters, call>>

\* a caller enters get_meters, which signs in whatever the jar holds
RaceStartGetMeters(c) ==
    /\ alive /\ meters # <<>> /\ callers[c].pc = "idle"
    /\ Len(meters) + Cardinality({d \in Callers : callers[d].op = "get_meters"}) < MaxMeters
    /\ callers' = [callers EXCEPT ![c] = [Idle EXCEPT !.op = "get_meters", !.pc = "login"]]
    /\ UNCHANGED <<alive, cookies, GetResiAccountsResponse, cdp, account, meters, call>>

\* _login() of the call in progress
RaceLogin(c) ==
    /\ callers[c].pc = "login"
    /\ \E p \in OkAnswers :
        LET l == Login(cookies, GetResiAccountsResponse, cdp, p[1], p[2]) IN
        /\ cookies' = l.cookies
        /\ GetResiAccountsResponse' = l.resi
        /\ cdp' = l.cdp
        /\ callers' = [Seen(c, FALSE, l.cookies) EXCEPT ![c] =
                          IF l.exc # NoExc \/ ~l.ret THEN Idle
                          ELSE [@ EXCEPT !.pc = IF callers[c].op = "get_meters" THEN "page"
                                                ELSE "post"]]
    /\ UNCHANGED <<alive, account, meters, call>>

\* session.post of the fetch call: the request goes out with what the jar holds
RacePost(c) ==
    /\ callers[c].pc = "post"
    /\ callers' = [callers EXCEPT ![c] = [@ EXCEPT !.pc = "answer", !.held = cookies]]
    /\ UNCHANGED <<alive, cookies, GetResiAccountsResponse, cdp, account, meters, call>>

\* the answer to the data POST and the try block of the fetch call
RaceAnswer(c) ==
    /\ callers[c].pc = "answer"
    /\ \E resp \in RaceData :
        LET billing == callers[c].op = "get_billing_info"
            d == DataPost(resp, IF billing THEN BillingTry(resp) ELSE ChartTry(resp))
        IN
        /\ cookies' = IF d.logout THEN Logout(cookies) ELSE cookies
        /\ meters' = IF ~d.store THEN meters
                     ELSE IF billing
                     THEN [meters EXCEPT ![1] = SetBillingUsage(@, resp.Data[Len(resp.Data)])]
                     ELSE [meters EXCEPT ![1] = SetChartUsage(@, resp)]
        /\ callers' = [Seen(c, d.logout, FALSE) EXCEPT ![c] = Idle]
    /\ UNCHANGED <<alive, GetResiAccountsResponse, cdp, account, call>>

\* the rest of _get_meters: the page is fetched, the Meter appended, _logout()
RacePage(c) ==
    /\ callers[c].pc = "page"
    /\ \E page \in {pg \in PageResponses : Len(pg.items) = 1 /\ pg.items[1].text = ItemE1} :
        /\ meters' = AppendMeters(meters, page.items, DefaultUpdateInterval).meters
        /\ cookies' = Logout(cookies)
        /\ callers' = [Seen(c, TRUE, FALSE) EXCEPT ![c] = Idle]
    /\ UNCHANGED <<alive, GetResiAccountsResponse, cdp, account, call>>

NextRace ==
    \/ ConstructOk
    \/ DiscoverOne
    \/ \E c \in Callers :
          \/ RaceStartFetch(c)
          \/ RaceStartGetMeters(c)
          \/ RaceLogin(c)
          \/ RacePost(c)
          \/ RaceAnswer(c)
          \/ RacePage(c)

\* two callers on a constructed client with one meter
SpecRace == Init /\ [][NextRace]_vars

(* ------------------------------ claims --------------------------------- *)
\* the data POST of the call got a response
DataAnswered(c) == IsFetch(c) /\ SentDataPost(c) /\ ~c.resp.exc

\* C1: a fetch call whose data POST is answered with an HTTP status other than
\* 200, or with a Status other than "OK" ("ERROR" included), returns False,
\* raises nothing, and leaves the session without a cookie.
C1_BadAnswerFailsAndLogsOut ==
    (DataAnswered(call)
        /\ (call.resp.code # 200
            \/ (call.resp.kind = "dict" /\ call.resp.hasStatus /\ call.resp.Status # "OK")))
    => (call.ret = "False" /\ call.exc = NoExc /\ ~cookies)

\* C1 happens: a usage-chart POST answered with HTTP 500 after a sign-in
C1_Witness ==
    /\ call.op = "get_usage_chart_data"
    /\ DataAnswered(call)
    /\ call.resp.code = 500
    /\ call.login = "True"
    /\ call.ret = "False"
    /\ ~cookies

\* C2 as claimed: every HTTP 200 answer with Status "OK" makes the fetch call
\* return True and hands the meter the payload: the last element of the Data
\* array for get_billing_info, whatever Data array was sent (an empty one
\* included), the whole body for get_usage_chart_data.
C2_OkAnswerReturnsTrue ==
    (DataAnswered(call) /\ call.resp.code = 200 /\ call.resp.kind = "dict"
        /\ call.resp.hasStatus /\ call.resp.Status = "OK"
        /\ (call.op = "get_billing_info" => call.resp.hasData))
    => /\ call.ret = "True"
       /\ call.op = "get_billing_info" =>
            /\ meters[call.meter].billing.set
            /\ call.resp.Data # <<>> =>
                 meters[call.meter].billing.value = call.resp.Data[Len(call.resp.Data)]
       /\ call.op = "get_usage_chart_data" =>
            meters[call.meter].chart =
                [set |-> TRUE, hasData |-> call.resp.hasData, Data |-> call.resp.Data]

\* C3 as claimed: when the data POST of a fetch call raises (timeout,
\* connection error), the call returns False, raises nothing, and the cookie
\* is cleared.
C3_PostExceptionIsHandled ==
    (IsFetch(call) /\ SentDataPost(call) /\ call.resp.exc)
    => (call.ret = "False" /\ call.exc = NoExc /\ ~cookies)

\* both construction requests that were sent were answered with HTTP 200 and a
\* JSON object
ConstructionAnswered(c) ==
    /\ c.op = "__init__"
    /\ ~c.r1.exc /\ c.r1.code = 200 /\ c.r1.kind = "dict"
    /\ c.r2 # NoSelector => (~c.r2.exc /\ c.r2.code = 200 /\ c.r2.kind = "dict")

HasStatus(r, st) == r.hasStatus /\ r.Status = st

\* C4 as claimed: construction succeeds exactly when the sign-in answer has
\* Status "Success" and the account-selector answer lists an account whose
\* Status is "ACTIVE".
C4_Original ==
    ConstructionAnswered(call)
    => ((call.ret = "client")
        <=> (HasStatus(call.r1, "Success")
             /\ \E i \in 1..Len(call.r2.Accounts) : call.r2.Accounts[i].Status = "ACTIVE"))

ActiveIgnoringCase(a) == a.Status \in {"ACTIVE", "Active"}

\* C4, amended: construction succeeds exactly when the sign-in answer and the
\* account-selector answer are both HTTP 200 JSON objects with Status
\* "Success" and the latter lists an account whose Status, upper-cased, is
\* "ACTIVE"; with the single account ("ACTIVE", "123") the client's account is
\* "123".
C4_ConstructionSucceedsIff ==
    call.op = "__init__"
    => /\ (call.ret = "client")
          <=> /\ ConstructionAnswered(call)
              /\ HasStatus(call.r1, "Success")
              /\ call.r2 # NoSelector
              /\ HasStatus(call.r2, "Success")
              /\ call.r2.hasAccounts
              /\ \E i \in 1..Len(call.r2.Accounts) : ActiveIgnoringCase(call.r2.Accounts[i])
       /\ (call.ret = "client") = alive
       /\ (call.ret = "client"
           /\ call.r2.Accounts = <<[Status |-> "ACTIVE", AccountNum |-> "123"]>>)
          => account = "123"

\* C4 happens: a client constructed from an account list whose only active
\* account is spelled "Active"
C4_Witness ==
    /\ call.op = "__init__"
    /\ alive
    /\ call.r2.Accounts = <<[Status |-> "INACTIVE", AccountNum |-> "123"],
                            [Status |-> "Active", AccountNum |-> "456"]>>
    /\ account = "456"

\* C5 as claimed: a construction that fails because the sign-in status check
\* fails, or because no active account is found after the sign-in (an
\* account-selector answer without a usable account list included), raises
\* DukeEnergyException and leaves no client.
C5_FailureRaisesDukeEnergyException ==
    (ConstructionAnswered(call) /\ call.ret # "client")
    => (call.exc = "DukeEnergyException" /\ ~alive)

ActiveAccounts(accts) == {i \in 1..Len(accts) : ActiveIgnoringCase(accts[i])}
FirstOf(S) == CHOOSE i \in S : \A j \in S : i <= j
LastOf(S) == CHOOSE i \in S : \A j \in S : j <= i

\* get_account_number has just run on a list with an active account
AccountChosen ==
    /\ alive
    /\ call.op \in {"__init__", "get_account_number"}
    /\ ActiveAccounts(GetResiAccountsResponse.Accounts) # {}

\* C6 as claimed: after get_account_number the retained account number is
\* that of the first active account of the list.
C6_Original ==
    AccountChosen
    => account = GetResiAccountsResponse.Accounts[
                    FirstOf(ActiveAccounts(GetResiAccountsResponse.Accounts))].AccountNum

\* C6, amended: after get_account_number the retained account number is that
\* of the last active account of the list, in list order.
C6_LastActiveAccountRetained ==
    AccountChosen
    => account = GetResiAccountsResponse.Accounts[
                    LastOf(ActiveAccounts(GetResiAccountsResponse.Accounts))].AccountNum

\* C6 happens: two active accounts, and the second one's number is retained
C6_Witness ==
    /\ AccountChosen
    /\ call.op = "get_account_number"
    /\ Cardinality(ActiveAccounts(GetResiAccountsResponse.Accounts)) = 2
    /\ account = "456"

\* C7 as claimed: every get_meters call ends with the session cookie cleared,
\* whether or not discovery succeeded: when its login returns False, when
\* fetching or parsing the page raises, and on success.
C7_GetMetersAlwaysLogsOut ==
    (call.op = "get_meters" /\ call.login \in {"True", "False"}) => ~cookies

\* the Meter built from a widget item
MeterOfItem(item, m) ==
    /\ Len(Split(item.text, Separator)) = 2
    /\ m.type = Split(item.text, Separator)[1]
    /\ m.id = Split(item.text, Separator)[2]
    /\ m.start_date = item.CalendarStartDate
    /\ m.update_interval = DefaultUpdateInterval

\* C8 as claimed: every successful get_meters call, a later one on the same
\* client included, returns exactly one Meter per item of the widget's list,
\* in item order.
C8_OneMeterPerItem ==
    (call.op = "get_meters" /\ call.exc = NoExc /\ call.login = "True")
    => /\ Len(meters) = Len(call.page.items)
       /\ \A i \in 1..Len(call.page.items) : MeterOfItem(call.page.items[i], meters[i])

\* C9 as claimed: after a fetch call that failed (it raised, or returned
\* anything but True), the next fetch call on the client first sends a
\* sign-in request.
C9_FailureForcesSignIn ==
    [][(alive /\ IsFetch(call) /\ Failed(call) /\ IsFetch(call'))
        => (call'.reqs # <<>> /\ call'.reqs[1] = "SignIn")]_vars

\* C10 as claimed: a fetch call that starts without a cookie and whose login
\* returns False returns the boolean False, sends no data POST and raises
\* nothing.
C10_LoginFailureReturnsFalse ==
    (IsFetch(call) /\ call.login = "False")
    => (call.ret = "False" /\ ~SentDataPost(call) /\ call.exc = NoExc)

\* the attempts of the call that were answered (no exception)
Answered(c) == {i \in 1..Len(c.attempts) : c.attempts[i] \in {"xml", "other"}}

\* C11 as claimed: get_usage_xml returns the text of the last response
\* obtained and raises nothing, whatever its attempts do, redirect loops on
\* every attempt included.
C11_AlwaysReturnsLastText ==
    (call.op = "get_usage_xml" /\ \A i \in 1..Len(call.attempts) : call.attempts[i] # "error")
    => /\ call.exc = NoExc
       /\ call.ret = "text"
       /\ Answered(call) # {} => call.text = LastOf(Answered(call))

\* C12: get_usage_xml sends at most 3 export POSTs; an attempt that is not
\* the third and ends in a redirect loop (or in a text without an XML
\* declaration) is followed by another one, and no attempt follows the first
\* answer that contains an XML declaration.
C12_AtMostThreeAttempts ==
    call.op = "get_usage_xml"
    => /\ Len(call.attempts) \in 1..3
       /\ Len(call.reqs) = Len(call.attempts)
       /\ \A i \in 1..Len(call.attempts) :
            /\ (call.attempts[i] \in {"redirect", "other"} /\ i < 3) => Len(call.attempts) > i
            /\ call.attempts[i] = "xml" => Len(call.attempts) = i

\* C12 happens: two redirect loops, then an XML answer on the third attempt
C12_Witness ==
    /\ call.op = "get_usage_xml"
    /\ call.attempts = <<"redirect", "redirect", "xml">>
    /\ call.exc = NoExc
    /\ call.text = 3

\* C19: get_usage_xml sends export POSTs only, never a sign-in request, and
\* leaves the session cookie as it found it; without a cookie it still sends
\* its export POSTs.
C19_ExportNeverSignsIn ==
    [][call'.op = "get_usage_xml"
        => /\ cookies' = cookies
           /\ call'.reqs # <<>>
           /\ \A i \in 1..Len(call'.reqs) : call'.reqs[i] = "Export"]_vars

\* C19 happens: right after get_meters has cleared the cookie, the export is
\* requested three times without a cookie
C19_Witness ==
    /\ call.op = "get_usage_xml"
    /\ ~cookies
    /\ call.reqs = <<"Export", "Export", "Export">>

HelperAnswered(c) == c.op = "_post_and_check_json_status" /\ ~c.r2.exc

\* C15 as claimed: the status-checked POST helper returns the parsed body only
\* when Status is "Success"; for every other response (other Status, missing
\* Status, empty body, HTTP status other than 200) it returns an empty result
\* and never raises.
C15_Original ==
    (HelperAnswered(call) /\ call.r2.kind \in {"dict", "falsy"})
    => /\ call.exc = NoExc
       /\ (call.ret = "body") <=> HasStatus(call.r2, "Success")
       /\ (call.ret # "body") => call.ret = "None"

\* C15, amended: the helper returns the parsed body only when the response is
\* HTTP 200 with a JSON object whose Status is "Success"; for every other HTTP
\* 200 response with a JSON object or an empty JSON value (other Status,
\* missing Status, empty body) it returns None without raising; for an HTTP
\* status other than 200 it raises DukeEnergyPostException.
C15_HelperResult ==
    HelperAnswered(call)
    => /\ (call.ret = "body")
          <=> (call.r2.code = 200 /\ call.r2.kind = "dict" /\ HasStatus(call.r2, "Success"))
       /\ (call.r2.code = 200 /\ call.r2.kind \in {"dict", "falsy"})
          => /\ call.exc = NoExc
             /\ call.ret \in {"body", "None"}
       /\ call.r2.code # 200 => call.exc = "DukeEnergyPostException"

\* C15 happens: an HTTP 500 answer makes the helper raise
C15_Witness ==
    /\ HelperAnswered(call)
    /\ call.r2.code = 500
    /\ call.exc = "DukeEnergyPostException"

\* C16: in single-caller use every billing or usage-chart POST goes out while
\* the session holds a cookie, and only after the cookie check passed (no
\* sign-in in the call) or the sign-in of the same call returned True
C16_DataPostHoldsCookie ==
    (IsFetch(call) /\ SentDataPost(call)) =>
        /\ call.held
        /\ call.login \in {"skipped", "True"}
        /\ call.login = "True" =>
                SubSeq(call.reqs, 1, Len(call.reqs) - 1) = <<"SignIn", "GetResiAccounts">>
        /\ call.login = "skipped" => Len(call.reqs) = 1

\* a data POST sent right after the sign-in of the same call
C16_Witness ==
    /\ IsFetch(call) /\ SentDataPost(call)
    /\ call.login = "True" /\ call.held
    /\ call.reqs[1] = "SignIn"

\* C18 as stated: a fetch call that returns without True hands over nothing,
\* leaves the meters alone and changes nothing of the client but for clearing
\* the session cookie
C18_Original ==
    [][(IsFetch(call') /\ call'.exc = NoExc /\ call'.ret # "True") =>
          /\ ~call'.store
          /\ meters' = meters
          /\ alive' = alive /\ account' = account
          /\ GetResiAccountsResponse' = GetResiAccountsResponse /\ cdp' = cdp
          /\ cookies' \in {cookies, FALSE}]_vars

\* C18 (amended): a fetch call hands a payload to the meter exactly when it
\* returns True; a call that raises or returns anything else leaves the meters
\* and the account alone, and changes of the client only the session cookie
\* and, when its own sign-in returned True, what that sign-in stores
C18_FailureFrame ==
    [][IsFetch(call') =>
          /\ call'.store <=> (call'.exc = NoExc /\ call'.ret = "True")
          /\ call'.store => /\ meters' = [meters EXCEPT ![call'.meter] = meters'[call'.meter]]
                            /\ IF call'.op = "get_billing_info"
                               THEN meters'[call'.meter].billing.set
                               ELSE meters'[call'.meter].chart.set
          /\ Failed(call') =>
                /\ meters' = meters
                /\ alive' = alive /\ account' = account
                /\ call'.login # "True" =>
                      (GetResiAccountsResponse' = GetResiAccountsResponse /\ cdp' = cdp)]_vars

\* a failing fetch call whose sign-in replaced the stored account-selector answer
C18_Witness ==
    /\ IsFetch(call) /\ call.exc = NoExc /\ call.ret = "False"
    /\ call.login = "True" /\ SentDataPost(call)
    /\ ~cookies
    /\ GetResiAccountsResponse.set /\ ~GetResiAccountsResponse.hasAccounts

\* the chart call sent its POST
ChartSent(c) == c.op = "get_usage_chart_data" /\ SentDataPost(c)

\* the day before d in the calendar
PreviousDay(d) ==
    IF d.day > 1 THEN [d EXCEPT !.day = d.day - 1]
    ELSE IF d.month > 1
         THEN [d EXCEPT !.month = d.month - 1, !.day = DaysInMonth(d.year, d.month - 1)]
         ELSE [year |-> d.year - 1, month |-> 12, day |-> 31]

\* the number written by a sequence of decimal digits
RECURSIVE Number(_)
Number(ds) ==
    IF ds = <<>> THEN 0
    ELSE 10 * Number(SubSeq(ds, 1, Len(ds) - 1))
         + (CHOOSE k \in 0..9 : Digits[k + 1] = ds[Len(ds)])

\* text is d written as MM / DD / YYYY
WrittenAs(text, d) ==
    /\ Len(text) = 14
    /\ \A i \in {1, 2, 6, 7, 11, 12, 13, 14} : \E k \in 1..10 : Digits[k] = text[i]
    /\ SubSeq(text, 3, 5) = <<" ", "/", " ">>
    /\ SubSeq(text, 8, 10) = <<" ", "/", " ">>
    /\ Number(SubSeq(text, 1, 2)) = d.month
    /\ Number(SubSeq(text, 6, 7)) = d.day
    /\ Number(SubSeq(text, 11, 14)) = d.year

\* C13: the Date field of the usage-chart POST is the meter date minus one day
\* when the request is made on a Sunday and the meter date otherwise, written
\* as MM / DD / YYYY, across month and year boundaries too
C13_DateField ==
    ChartSent(call) =>
        WrittenAs(call.Date, IF call.today = "Sunday" THEN PreviousDay(call.date)
                             ELSE call.date)

\* a Sunday request for a meter dated 1 January, and one for 1 March of a leap year
C13_Witness ==
    /\ ChartSent(call) /\ call.today = "Sunday"
    /\ call.date = [year |-> 2024, month |-> 1, day |-> 1]
    /\ call.Date = <<"1", "2", " ", "/", " ", "3", "1", " ", "/", " ", "2", "0", "2", "3">>

\* C14: a display text from which a Meter is made splits on " - " into the
\* Meter's (type, id); type + " - " + id is the text again, it is the
\* MeterNumber of the POSTs, and it splits into the same pair
C14_MeterNumberRoundTrip ==
    /\ (call.op = "get_meters" /\ call.exc = NoExc /\ Len(call.page.items) = 1) =>
          LET m == meters[Len(meters)]
              text == call.page.items[1].text
          IN /\ Split(text, Separator) = <<m.type, m.id>>
             /\ MeterNumber(m) = text
             /\ Split(MeterNumber(m), Separator) = <<m.type, m.id>>
    /\ (IsFetch(call) /\ SentDataPost(call)) =>
          LET m == meters[call.meter] IN
          /\ call.number = m.type \o Separator \o m.id
          /\ Split(call.number, Separator) = <<m.type, m.id>>

\* a Meter made from "E - - ", whose id is a hyphen and a space, was polled
C14_Witness ==
    /\ IsFetch(call) /\ SentDataPost(call)
    /\ call.number = <<"E", " ", "-", " ", "-", " ">>
    /\ meters[call.meter].id = <<"-", " ">>

\* C17: with two callers on one client, a data POST goes out with no session
\* cookie exactly when another caller cleared the jar after this call passed
\* its condition and before it sent the POST; such an interleaving exists
\* (C17_Witness)
C17_RaceOnCookie ==
    \A c \in Callers :
        callers[c].pc = "answer" => (callers[c].held <=> ~callers[c].cleared)

\* a caller whose cookie check passed has sent its data POST with no cookie,
\* the other caller having logged out in between
C17_Witness ==
    \E c \in Callers :
        /\ callers[c].pc = "answer" /\ callers[c].op \in FetchOps
        /\ callers[c].checked /\ callers[c].cleared
        /\ ~callers[c].held

====
